---- MODULE Spec2Model ----
(***************************************************************************)
(* Model of mcp-datadog: the TTL/LRU cache (src/cache.rs), its callers,    *)
(* the protocol engine (src/server) and the request executor with its      *)
(* retry policy (src/datadog).                                             *)
(***************************************************************************)
EXTENDS Integers, FiniteSets, Sequences, TLC

\* ---------------------------------------------------------------- bounds
\* capacity of the cache (GenericCache::max_entries; the program uses 100)
max_entries == 2
\* time-to-live in clock ticks (GenericCache::ttl; the program uses 300 s)
ttl == 2
\* last reading of the monotonic clock the model explores
MaxTime == 3
\* largest retry count the retry functions are applied to
MaxRetryCount == 10
\* attempts after which the model stops following one call of the executor;
\* the executor itself stops earlier
MaxAttempts == 5

\* ------------------------------------------------------------- constants
\* retry::MAX_RETRIES
MAX_RETRIES == 3

Keys == {"a", "b", "c"}
Values == {"v1", "v2"}
Procs == {"p1", "p2"}

None == "none"
Err == "err"
NoKey == "-"

VARIABLES
    entries,    \* GenericCache::entries, the HashMap<String, CacheEntry<T>>
    now,        \* the monotonic clock, Instant::now()
    lock,       \* holder of the RwLock write guard, "free" when nobody holds it
    call,       \* per get_or_fetch caller: where it stands in get_or_fetch
    last,       \* the most recently completed cache operation and what it returned
    writers,    \* per concurrent writer: the key and value it sets, and when it did
    initialized,\* Server::initialized
    req,        \* the request process_request was last given
    resp,       \* what process_request returned for it: a response, or none
    srv,        \* where the main loop stands: reading, or inside a tool handler
    line,       \* the input line the main loop read last
    exec,       \* DatadogClient::request: its retries counter and its attempts
    applied,    \* the retry function applied last, its argument and its value
    stdin,      \* the input stream: "open", or "eof" once the peer has closed it
    stdout,     \* the output stream: "open", or "broken" once writes to it fail
    empty_reads,\* Server::run: the count of zero-byte reads since the last data
    stores,     \* DataCache: the maps of the monitors and of the events cache
    sweeper,    \* cleanup_all_expired: the cache it sweeps next, and its total
    mon         \* MonitorsHandler::list on page 0: where it stands

cacheVars == <<entries, now, lock, call, last>>

\* the state of the request executor and of the retry functions
clientVars == <<exec, applied>>

\* what the operations of the cache leave alone
\* the streams of the main loop and its counter of empty reads
ioVars == <<stdin, stdout, empty_reads>>

\* the caches of DataCache next to the dashboards cache, and their users
dataVars == <<stores, sweeper, mon>>

others == <<writers, initialized, req, resp, srv, line, clientVars, ioVars, dataVars>>

vars == <<cacheVars, others>>

\* ------------------------------------------------------------ CacheEntry
new_entry(data, t) == [data |-> data, created_at |-> t, last_accessed |-> t]

age(e, t) == t - e.created_at

\* an access that also restarts the entry's age
access_Renew(e, t) == [e EXCEPT !.last_accessed = t, !.created_at = t]

access(e, t) == [e EXCEPT !.last_accessed = t]

\* ----------------------------------------------------------- map helpers
Remove(m, k) == [x \in DOMAIN m \ {k} |-> m[x]]

\* insert that keeps the entry of a key already present (entry().or_insert)
Insert_KeepOld(m, k, e) == [x \in DOMAIN m \cup {k} |-> IF x \in DOMAIN m THEN m[x] ELSE e]

Insert(m, k, e) == [x \in DOMAIN m \cup {k} |-> IF x = k THEN e ELSE m[x]]

MapLen(m) == Cardinality(DOMAIN m)

\* ---------------------------------------------------------- GenericCache
\* get with the boundary on the wrong side: an entry of age ttl is still served
GetFresh_Inclusive(e, t) == age(e, t) <= ttl

\* the test `entry.age() < self.ttl` of get
GetFresh(e, t) == age(e, t) < ttl

\* a sweep that keeps every entry
Keep_All(e, t) == TRUE

\* retain with the boundary on the wrong side: an entry of age ttl is kept
Keep_Inclusive(e, t) == age(e, t) <= ttl

\* the test `entry.age() < self.ttl` of cleanup_expired's retain
Keep(e, t) == age(e, t) < ttl

\* get under the write lock: the map afterwards, the returned Option, and
\* whether the "Cache expired" branch (lines 56-57) ran
get(m, k, t) ==
    IF k \in DOMAIN m
    THEN IF GetFresh(m[k], t)
         THEN [map |-> [m EXCEPT ![k] = access(m[k], t)], val |-> m[k].data, expired |-> 0]
         ELSE [map |-> Remove(m, k), val |-> None, expired |-> 1]
    ELSE [map |-> m, val |-> None, expired |-> 0]

\* max_by_key in place of min_by_key: the most recently used entry goes
lru_keys_Mru(m) ==
    {k \in DOMAIN m : \A x \in DOMAIN m : m[k].last_accessed >= m[x].last_accessed}

\* the keys min_by_key may return: HashMap iteration order is arbitrary, so
\* any key with the least last_accessed
lru_keys(m) ==
    {k \in DOMAIN m : \A x \in DOMAIN m : m[k].last_accessed <= m[x].last_accessed}

\* evict_lru: the maps it can leave
evict_lru(m) ==
    IF DOMAIN m = {} THEN {m} ELSE {Remove(m, k) : k \in lru_keys(m)}

\* `>` in place of `>=`: the map grows one past max_entries
MustEvict_Strict(m, k) == MapLen(m) > max_entries /\ k \notin DOMAIN m

\* an off-by-one that evicts while there is still room for the new key
MustEvict_Early(m, k) == MapLen(m) + 1 >= max_entries /\ k \notin DOMAIN m

\* the condition without `!cache.contains_key(&key)`
MustEvict_AnyKey(m, k) == MapLen(m) >= max_entries

\* the condition of set under which it evicts
MustEvict(m, k) == MapLen(m) >= max_entries /\ k \notin DOMAIN m

\* set under the write lock: the maps it can leave
set(m, k, v, t) ==
    LET base == IF MustEvict(m, k) THEN evict_lru(m) ELSE {m}
    IN  {Insert(b, k, new_entry(v, t)) : b \in base}

\* whether set logs "Evicted LRU cache entry" (lines 95-96)
Evicts(m, k) == IF MustEvict(m, k) /\ DOMAIN m # {} THEN 1 ELSE 0

\* get_or_fetch that returns the producer's value without storing it
FetchStore_Skip(m, k, v, t) == {m}

\* get_or_fetch line 84: the producer's value is stored with set
FetchStore(m, k, v, t) == set(m, k, v, t)

\* cleanup_expired under the write lock: the map afterwards and the count
cleanup_expired(m, t) ==
    LET kept == {k \in DOMAIN m : Keep(m[k], t)}
    IN  [map |-> [k \in kept |-> m[k]], removed |-> MapLen(m) - Cardinality(kept)]

\* the write guard is a local of get / set / cleanup_expired: dropped on return
GuardAfterOp == "free"

\* a probe whose write guard lives on while the producer runs
GuardAfterProbe_Held(p) == p

\* get_or_fetch after its probe returned: no guard is carried into fetch_fn
GuardAfterProbe(p) == "free"

\* a producer failure that is not propagated: the failure is stored and returned
Propagates_Never(outcome) == FALSE

\* `fetch_fn().await?`: a failed producer makes get_or_fetch return at once,
\* before the set of line 84
Propagates(outcome) == outcome = Err

\* ---------------------------------------------------- protocol envelopes
Ids == {"id1", "id2"}
NoId == "noid"

NoTool == "-"
CachedTools == {"datadog_dashboards_list"}
PlainTools == {"datadog_metrics_query"}
Tools == CachedTools \cup PlainTools
UnknownTool == "datadog_unknown_tool"

\* methods process_request answers with a fixed result
FixedResultMethods == {"prompts/list", "resources/list", "shutdown"}
\* methods process_request answers with nothing
SilentMethods == {"exit", "notifications/cancelled", "notifications/progress"}
InitializedMethods == {"initialized", "notifications/initialized"}
\* method names outside the fixed set of process_request
UnknownMethods == {"unknown/method", "tools/delete"}

\* the protocolVersion strings a client sends
Versions == {"2024-11-05", "2025-03-26"}

NoRequest == [method |-> "-", id |-> NoId, params |-> "absent", tool |-> NoTool, page |-> 0]

\* the JsonRpcRequest values the model reads from stdin
Requests ==
    {[method |-> m, id |-> i, params |-> "absent", tool |-> NoTool, page |-> 0] :
        m \in FixedResultMethods \cup SilentMethods \cup InitializedMethods
                \cup UnknownMethods \cup {"tools/list", "tools/call"},
        i \in Ids \cup {NoId}}
    \cup {[method |-> "initialize", id |-> i, params |-> v, tool |-> NoTool, page |-> 0] :
        i \in Ids \cup {NoId}, v \in {"absent", "malformed"} \cup Versions}
    \cup {[method |-> "tools/call", id |-> i, params |-> a, tool |-> t, page |-> 0] :
        i \in Ids, a \in {"arguments", "bad arguments"},
        t \in PlainTools \cup {NoTool, UnknownTool}}
    \cup {[method |-> "tools/call", id |-> i, params |-> "arguments", tool |-> t, page |-> g] :
        i \in Ids, t \in CachedTools, g \in {0, 1}}

\* JsonRpcResponse::error = None
NoError == [code |-> 0, message |-> << >>, data |-> FALSE]

\* JsonRpcError; a message is the pieces format! joins, data is whether the
\* optional data field is set
JsonRpcError(code, message) == [code |-> code, message |-> message, data |-> FALSE]

\* Ok(None) of process_request: no response, nothing is written.  A response
\* carries the Option fields result, error and id of JsonRpcResponse; isError
\* and handler describe the content of a tools/call result: whether it is
\* flagged as an error, and the handler that produced it
NoResponse ==
    [some |-> FALSE, result |-> None, error |-> NoError, id |-> NoId,
     isError |-> FALSE, handler |-> NoTool]

\* an error envelope that carries a result next to its error
create_error_response_WithResult(code, message, id) ==
    [some |-> TRUE, result |-> "null", error |-> JsonRpcError(code, message), id |-> id,
     isError |-> FALSE, handler |-> NoTool]

\* Server::create_error_response, and the error envelopes built in place
create_error_response(code, message, id) ==
    [some |-> TRUE, result |-> None, error |-> JsonRpcError(code, message), id |-> id,
     isError |-> FALSE, handler |-> NoTool]

\* a success envelope that drops the id of its request
create_success_response_NoId(result, id) ==
    [some |-> TRUE, result |-> result, error |-> NoError, id |-> NoId,
     isError |-> FALSE, handler |-> NoTool]

\* Server::create_success_response, and the success envelopes built in place
create_success_response(result, id) ==
    [some |-> TRUE, result |-> result, error |-> NoError, id |-> id,
     isError |-> FALSE, handler |-> NoTool]

HasResult(r) == r.result # None

HasError(r) == r.error # NoError

\* ------------------------------------------------------------ input lines
\* a JSON null given as the id of a line
IdNull == "null"

\* no line read yet
NoLine == [shape |-> "none", id |-> NoId]

\* a line that is empty once trimmed
BlankLine == [shape |-> "blank", id |-> NoId]

\* the non-blank lines serde_json::from_str::<JsonRpcRequest> rejects: text
\* that is no JSON, JSON that is no object, and an object that is no request
\* envelope (no string method), with or without an id field
MalformedLines ==
    {[shape |-> sh, id |-> NoId] : sh \in {"notjson", "nonobject"}}
    \cup {[shape |-> "nomethod", id |-> i] : i \in Ids \cup {IdNull, NoId}}

\* a line that parses as the request r
RequestLine(r) == [shape |-> "request", id |-> r.id]

\* serde_json::from_str::<serde_json::Value>(line) is Ok
IsJson(l) == l.shape # "notjson"

\* partial.get("id"): None on a value that is no object or has no id field
RecoveredId(l) == IF l.shape = "nomethod" THEN l.id ELSE NoId

\* a parse failure answered whether or not an id was recovered
parse_error_response_Always(l) ==
    [create_error_response(-32700, <<"Parse error">>, RecoveredId(l)) EXCEPT !.error.data = TRUE]

\* Server::run, lines 138-159: what is written for a line that failed to parse
parse_error_response(l) ==
    IF IsJson(l) /\ RecoveredId(l) # NoId
    THEN [create_error_response(-32700, <<"Parse error">>, RecoveredId(l))
             EXCEPT !.error.data = TRUE]
    ELSE NoResponse

\* ----------------------------------------------------------------- retry
RECURSIVE pow(_, _)
\* u64::pow by repeated multiplication; no argument of the model reaches the
\* 64-bit overflow at exponent 64
pow(b, e) == IF e = 0 THEN 1 ELSE b * pow(b, e - 1)

\* a backoff that grows by two seconds a retry
calculate_backoff_Linear(retry_count) == 2 * retry_count

\* a backoff with a ceiling of 8 seconds
calculate_backoff_Capped(retry_count) ==
    IF pow(2, retry_count) > 8 THEN 8 ELSE pow(2, retry_count)

\* retry::calculate_backoff, in seconds
calculate_backoff(retry_count) == pow(2, retry_count)

\* a limit that lets one more retry through
should_retry_Inclusive(current_retry) == current_retry <= MAX_RETRIES

\* retry::should_retry
should_retry(current_retry) == current_retry < MAX_RETRIES

\* ---------------------------------------------------------- DatadogClient
\* how one attempt ends: a response with a status and a body that decodes
\* as the expected type or not, or a failure of send() itself (no response)
Ok200 == [status |-> 200, body |-> "data", decodes |-> TRUE]
FailureStatuses ==
    {[status |-> st, body |-> "denied", decodes |-> FALSE] : st \in {401, 408, 429, 500}}
BadBody == [status |-> 200, body |-> "not json", decodes |-> FALSE]
SendError == [status |-> 0, body |-> "", decodes |-> FALSE]
AttemptOutcomes == {Ok200, BadBody, SendError} \cup FailureStatuses

\* the responses handle_response is applied to on its own
Statuses == {200, 201, 204, 301, 304, 400, 401, 403, 404, 408, 409, 429, 500, 502, 503, 504}
Bodies == {"data", "denied", ""}
Responses ==
    {[status |-> st, body |-> b, decodes |-> d] :
        st \in Statuses, b \in Bodies, d \in BOOLEAN}

\* StatusCode::is_success
is_success(status) == 200 <= status /\ status < 300

\* no classification
NoFailure == [class |-> None, status |-> 0, text |-> ""]

\* a classification that takes 403 for an API failure
handle_response_ForbiddenIsApi(o) ==
    IF is_success(o.status)
    THEN IF o.decodes THEN [class |-> "ok", status |-> 0, text |-> o.body]
         ELSE [class |-> "NetworkError", status |-> 0, text |-> ""]
    ELSE IF o.status = 401 THEN [class |-> "AuthError", status |-> 0, text |-> o.body]
    ELSE IF o.status = 429 THEN [class |-> "RateLimitError", status |-> 0, text |-> ""]
    ELSE IF o.status = 408 THEN [class |-> "TimeoutError", status |-> 0, text |-> ""]
    ELSE [class |-> "ApiError", status |-> o.status, text |-> o.body]

\* DatadogClient::handle_response: the data, or the DatadogError with what it
\* carries (AuthError the body text, ApiError the status and the body text)
handle_response(o) ==
    IF is_success(o.status)
    THEN IF o.decodes THEN [class |-> "ok", status |-> 0, text |-> o.body]
         ELSE [class |-> "NetworkError", status |-> 0, text |-> ""]
    ELSE IF o.status \in {401, 403} THEN [class |-> "AuthError", status |-> 0, text |-> o.body]
    ELSE IF o.status = 429 THEN [class |-> "RateLimitError", status |-> 0, text |-> ""]
    ELSE IF o.status = 408 THEN [class |-> "TimeoutError", status |-> 0, text |-> ""]
    ELSE [class |-> "ApiError", status |-> o.status, text |-> o.body]

\* reqwest::Error of send() turned into DatadogError by `?`
send_error == [class |-> "NetworkError", status |-> 0, text |-> ""]

\* a retry loop that forgets to count
RetriesAfter_Stuck(retries) == retries

\* DatadogClient::request, line 89: retries += 1
RetriesAfter(retries) == retries + 1

\* a retry test that gives up at once on an Auth failure
Retryable_NotAuth(failure, retries) ==
    failure.class # "AuthError" /\ should_retry(retries)

\* DatadogClient::request, line 85: the test made on a failed response; the
\* failure itself is not looked at
Retryable(failure, retries) == should_retry(retries)

\* a call that returns the failure of its first attempt
ReturnedFailure_First(tried) == handle_response(tried[1])

\* DatadogClient::request, line 86: return Err(e), e being the failure of the
\* attempt just made
ReturnedFailure(tried) == handle_response(tried[Len(tried)])

\* a retries counter kept in the client across calls
StartRetries_Carried(previous) == previous

\* DatadogClient::request, line 61: let mut retries = 0
StartRetries(previous) == 0

\* no call of the executor under way; prior is how the call before ended
NoCall ==
    [pc |-> "idle", retries |-> 0, attempts |-> << >>, delays |-> << >>,
     result |-> None, failure |-> NoFailure, prior |-> None]

\* no function applied yet
NotApplied ==
    [fn |-> "none", n |-> 0, retry |-> FALSE, backoff |-> 0,
     arg |-> SendError, out |-> NoFailure]

Idle == [pc |-> "idle", key |-> NoKey, invoked |-> 0]

\* DataCache: the caches next to dashboards
StoreNames == {"monitors", "events"}

Ret(op, k, v, n) == [op |-> op, key |-> k, val |-> v, n |-> n, had |-> FALSE]

\* what a set on map m records: whether it evicted, and whether the full map
\* already had the key (line 65: contains_key is evaluated only once
\* `len() >= max_entries` holds, and it returned true)
RetSet(m, k, v) ==
    [Ret("set", k, v, Evicts(m, k)) EXCEPT !.had = MapLen(m) >= max_entries /\ k \in DOMAIN m]

\* ------------------------------------------------------------------ Init
Init ==
    /\ entries = [k \in {} |-> new_entry(None, 0)]
    /\ now = 0
    /\ lock = "free"
    /\ call = [p \in Procs |-> Idle]
    /\ last = Ret("new", NoKey, None, 0)
    /\ writers = [p \in Procs |-> [key |-> NoKey, val |-> None, at |-> -1]]
    /\ initialized = FALSE
    /\ req = NoRequest
    /\ resp = NoResponse
    /\ srv = "read"
    /\ line = NoLine
    /\ exec = NoCall
    /\ applied = NotApplied
    /\ stdin = "open"
    /\ stdout = "open"
    /\ empty_reads = 0
    /\ stores = [c \in StoreNames |-> [k \in {} |-> new_entry(None, 0)]]
    /\ sweeper = [pc |-> "dashboards", total |-> 0]
    /\ mon = [pc |-> "idle", invoked |-> 0]

\* --------------------------------------------------------------- actions
\* the monotonic clock advances
Tick ==
    /\ now < MaxTime
    /\ now' = now + 1
    /\ UNCHANGED <<entries, lock, call, last, others>>

\* GenericCache::get(key), by a caller that is not inside get_or_fetch
CallGet(k) ==
    /\ \E p \in Procs : call[p].pc = "idle"
    /\ lock = "free"
    /\ LET r == get(entries, k, now)
       IN  /\ entries' = r.map
           /\ last' = Ret("get", k, r.val, r.expired)
    /\ lock' = GuardAfterOp
    /\ UNCHANGED <<now, call, others>>

\* GenericCache::set(key, data), by a caller that is not inside get_or_fetch
CallSet(k, v) ==
    /\ \E p \in Procs : call[p].pc = "idle"
    /\ lock = "free"
    /\ entries' \in set(entries, k, v, now)
    /\ last' = RetSet(entries, k, v)
    /\ lock' = GuardAfterOp
    /\ UNCHANGED <<now, call, others>>

\* GenericCache::cleanup_expired, by the periodic sweep task
CallCleanupExpired ==
    /\ lock = "free"
    /\ LET r == cleanup_expired(entries, now)
       IN  /\ entries' = r.map
           /\ last' = Ret("cleanup", NoKey, None, r.removed)
    /\ lock' = GuardAfterOp
    /\ UNCHANGED <<now, call, others>>

\* get_or_fetch, lines 77-83: the probe; a hit returns, a miss calls fetch_fn
GetOrFetchProbe(p, k) ==
    /\ call[p].pc = "idle"
    /\ lock = "free"
    /\ LET r == get(entries, k, now)
       IN  /\ entries' = r.map
           /\ IF r.val # None
              THEN /\ call' = call
                   /\ last' = Ret("get_or_fetch", k, r.val, 0)
              ELSE /\ call' = [call EXCEPT ![p] =
                          [pc |-> "fetching", key |-> k, invoked |-> 1]]
                   /\ last' = Ret("get", k, None, r.expired)
    /\ lock' = GuardAfterProbe(p)
    /\ UNCHANGED <<now, others>>

\* get_or_fetch, lines 83-86: the producer finishes; a failure is returned,
\* a value is stored with set and returned
GetOrFetchFinish(p, outcome) ==
    /\ call[p].pc = "fetching"
    /\ IF Propagates(outcome)
       THEN /\ last' = Ret("get_or_fetch", call[p].key, Err, call[p].invoked)
            /\ UNCHANGED <<entries, lock>>
       ELSE /\ lock = "free"
            /\ entries' \in FetchStore(entries, call[p].key, outcome, now)
            /\ last' = Ret("get_or_fetch", call[p].key, outcome, call[p].invoked)
            /\ lock' = GuardAfterOp
    /\ call' = [call EXCEPT ![p] = Idle]
    /\ UNCHANGED <<now, others>>

\* one caller of get_or_fetch among callers of get, set and the sweep
Next ==
    \/ Tick
    \/ \E k \in Keys : CallGet(k)
    \/ \E k \in Keys, v \in Values : CallSet(k, v)
    \/ CallCleanupExpired
    \/ \E k \in Keys : GetOrFetchProbe("p1", k)
    \/ \E o \in Values \cup {Err} : GetOrFetchFinish("p1", o)

Spec == Init /\ [][Next]_vars

\* callers of get_or_fetch running at once, among setters and the sweep
NextConcurrent ==
    \/ Tick
    \/ \E k \in Keys, v \in Values : CallSet(k, v)
    \/ CallCleanupExpired
    \/ \E p \in Procs, k \in Keys : GetOrFetchProbe(p, k)
    \/ \E p \in Procs, o \in Values \cup {Err} : GetOrFetchFinish(p, o)

ConcurrentSpec == Init /\ [][NextConcurrent]_vars

\* ------------------------------------------ concurrent writers (tests)
\* test_concurrent_cache_access: one task per caller, each setting a key of
\* its own on a new cache; once all have been joined the keys are read back
InitWriters ==
    /\ Init
    /\ Cardinality(Procs) <= max_entries

Written(p) == writers[p].at >= 0

\* the spawned task of caller p: cache.set(key_p, v)
WriterSet(p, k, v) ==
    /\ ~Written(p)
    /\ \A q \in Procs : writers[q].key # k
    /\ lock = "free"
    /\ entries' \in set(entries, k, v, now)
    /\ last' = RetSet(entries, k, v)
    /\ lock' = GuardAfterOp
    /\ writers' = [writers EXCEPT ![p] = [key |-> k, val |-> v, at |-> now]]
    /\ UNCHANGED <<now, call, initialized, req, resp, srv, line, clientVars, ioVars, dataVars>>

\* after every handle.await: cache.get(key_p)
ReaderGet(k) ==
    /\ \A p \in Procs : Written(p)
    /\ CallGet(k)

NextWriters ==
    \/ Tick
    \/ \E p \in Procs, k \in Keys, v \in Values : WriterSet(p, k, v)
    \/ \E k \in Keys : ReaderGet(k)

WritersSpec == InitWriters /\ [][NextWriters]_vars

\* ------------------------------------------------------ protocol engine
\* the key DashboardsHandler::list builds with create_cache_key
DashKey == "a"

\* the params check made ahead of the initialization check
handle_tool_call_ParamsFirst(r, init) ==
    IF r.params = "absent" THEN create_error_response(-32602, <<"Missing params">>, r.id)
    ELSE IF ~init THEN create_error_response(-32002, <<"Server not initialized">>, r.id)
    ELSE IF r.tool = NoTool THEN create_error_response(-32602, <<"Missing tool name">>, r.id)
    ELSE IF r.tool \notin Tools
         THEN create_error_response(-32602, <<"Unknown tool: ", r.tool>>, r.id)
    ELSE NoResponse

\* a dispatch that hands a tool name it does not know to a handler
handle_tool_call_UnknownDispatched(r, init) ==
    IF ~init THEN create_error_response(-32002, <<"Server not initialized">>, r.id)
    ELSE IF r.params = "absent" THEN create_error_response(-32602, <<"Missing params">>, r.id)
    ELSE IF r.tool = NoTool THEN create_error_response(-32602, <<"Missing tool name">>, r.id)
    ELSE NoResponse

\* handle_tool_call up to the dispatch: the error it returns, or NoResponse
\* when the call goes on to a handler
handle_tool_call(r, init) ==
    IF ~init THEN create_error_response(-32002, <<"Server not initialized">>, r.id)
    ELSE IF r.params = "absent" THEN create_error_response(-32602, <<"Missing params">>, r.id)
    ELSE IF r.tool = NoTool THEN create_error_response(-32602, <<"Missing tool name">>, r.id)
    ELSE IF r.tool \notin Tools
         THEN create_error_response(-32602, <<"Unknown tool: ", r.tool>>, r.id)
    ELSE NoResponse

\* a handler failure reported as a protocol error
ToolResponse_ErrorChannel(r, outcome) ==
    IF outcome = Err
    THEN [create_error_response(-32603, <<"Error">>, r.id) EXCEPT !.handler = r.tool]
    ELSE [create_success_response(outcome, r.id) EXCEPT !.handler = r.tool]

\* handle_tool_call, lines 123-141: the handler's Result wrapped as a result
ToolResponse(r, outcome) ==
    [create_success_response(IF outcome = Err THEN "Error" ELSE outcome, r.id)
        EXCEPT !.isError = (outcome = Err), !.handler = r.tool]

\* an initialize that answers with the version the server was written for
ProtocolVersion_Fixed(params) == "2024-11-05"

\* handle_initialize, line 301: the version the client requested
ProtocolVersion(params) == params

\* an initialize that answers a request without params with a default version
MissingParams_Default(r) == create_success_response("2024-11-05", r.id)

\* handle_initialize, lines 285-297: params is None
MissingParams(r) == create_error_response(-32602, <<"Missing params">>, r.id)

\* handle_initialize: the result stands for the JSON object of lines 305-314,
\* whose only varying member is protocolVersion
handle_initialize(r) ==
    IF r.params = "absent" THEN MissingParams(r)
    ELSE IF r.params \notin Versions
         THEN create_error_response(-32602,
                  <<"Invalid params: ", "missing field protocolVersion">>, r.id)
    ELSE create_success_response(ProtocolVersion(r.params), r.id)

\* a tools/list that answers with the catalogue whatever the session state
handle_tools_list_Ungated(r, init) == create_success_response("tools", r.id)

\* handle_tools_list: the error of an uninitialized session, else the tools
handle_tools_list(r, init) ==
    IF ~init THEN create_error_response(-32002, <<"Server not initialized">>, r.id)
    ELSE create_success_response("tools", r.id)

\* a method-not-found message that leaves the method out
MethodNotFound_Bare(method) == <<"Method not found">>

\* process_request, line 249: format!("Method not found: {}", request.method)
MethodNotFound(method) == <<"Method not found: ", method>>

\* process_request for every method but tools/call
process_request(r, init) ==
    IF r.method = "initialize" THEN handle_initialize(r)
    ELSE IF r.method \in InitializedMethods THEN NoResponse
    ELSE IF r.method = "tools/list" THEN handle_tools_list(r, init)
    ELSE IF r.method \in FixedResultMethods THEN create_success_response(r.method, r.id)
    ELSE IF r.method \in SilentMethods THEN NoResponse
    ELSE create_error_response(-32601, MethodNotFound(r.method), r.id)

\* a session that an initialize request already marks as initialized
SessionAfter_OnInitialize(r, init) ==
    IF r.method \in InitializedMethods \cup {"initialize"} THEN TRUE ELSE init

\* Server::initialized once r is processed: handle_initialized sets it, no
\* other arm of process_request writes it
SessionAfter(r, init) ==
    IF r.method \in InitializedMethods THEN TRUE ELSE init

\* a loop that reads on while a request is still being processed
Reading_Always(s) == TRUE

\* Server::run: read_line is reached only at the top of the loop, once the
\* request before it was processed and its response written
Reading(s) == s = "read"

\* a loop that gives up at the third empty read
LoopEnds_AtThree(n) == n >= 3

\* Server::run, line 118: `if empty_reads > 3 { break; }`
LoopEnds(n) == n > 3

\* a loop that ends whenever the response it wrote is an error
AfterWrite_ErrorEnds(r, out) ==
    IF r.some /\ (out = "broken" \/ r.error # NoError) THEN "ended" ELSE "read"

\* Server::run, lines 171-176: a response whose write_all or flush fails
\* ends the loop with `break`; otherwise the loop is back at read_line
AfterWrite(r, out) == IF r.some /\ out = "broken" THEN "ended" ELSE "read"

\* Server::run, lines 151-158: the outcome of writing a parse-error response
\* is dropped (`let _ =`) and the loop goes on with `continue`
AfterParseError(r, out) == "read"

\* what read_line returned when it was no line: zero bytes, or an error
ZeroLine == [shape |-> "zero", id |-> NoId]
ErrorLine == [shape |-> "error", id |-> NoId]

\* the peer closes its end of the input stream: every later read is empty
StdinCloses ==
    /\ stdin = "open"
    /\ stdin' = "eof"
    /\ UNCHANGED <<cacheVars, writers, initialized, req, resp, srv, line, clientVars,
                   stdout, empty_reads, dataVars>>

\* the peer stops reading the output stream: every later write fails
PeerCloses ==
    /\ stdout = "open"
    /\ stdout' = "broken"
    /\ UNCHANGED <<cacheVars, writers, initialized, req, resp, srv, line, clientVars,
                   stdin, empty_reads, dataVars>>

\* read_line returns Ok(0), lines 116-122: count it, `break` past the limit
ReadZero ==
    /\ Reading(srv)
    /\ empty_reads' = empty_reads + 1
    /\ srv' = IF LoopEnds(empty_reads + 1) THEN "ended" ELSE "read"
    /\ line' = ZeroLine
    /\ req' = NoRequest
    /\ resp' = NoResponse
    /\ UNCHANGED <<cacheVars, writers, initialized, clientVars, stdin, stdout, dataVars>>

\* read_line returns Err, line 128: `continue`, the counter is not touched
ReadError ==
    /\ Reading(srv)
    /\ stdin = "open"
    /\ line' = ErrorLine
    /\ req' = NoRequest
    /\ resp' = NoResponse
    /\ UNCHANGED <<cacheVars, writers, initialized, srv, clientVars, ioVars, dataVars>>

\* the main loop reads a line that is empty once trimmed: `continue`
ReadBlank ==
    /\ Reading(srv)
    /\ stdin = "open"
    /\ empty_reads' = 0
    /\ line' = BlankLine
    /\ req' = NoRequest
    /\ resp' = NoResponse
    /\ UNCHANGED <<cacheVars, writers, initialized, srv, clientVars, stdin, stdout, dataVars>>

\* the main loop reads a non-blank line that fails to parse as a request
ReadMalformed(l) ==
    /\ Reading(srv)
    /\ stdin = "open"
    /\ empty_reads' = 0
    /\ line' = l
    /\ req' = NoRequest
    /\ resp' = parse_error_response(l)
    /\ srv' = AfterParseError(parse_error_response(l), stdout)
    /\ UNCHANGED <<cacheVars, writers, initialized, clientVars, stdin, stdout, dataVars>>

\* the main loop reads a request that is no tools/call and processes it
Receive(r) ==
    /\ Reading(srv)
    /\ stdin = "open"
    /\ empty_reads' = 0
    /\ r.method # "tools/call"
    /\ req' = r
    /\ line' = RequestLine(r)
    /\ resp' = process_request(r, initialized)
    /\ initialized' = SessionAfter(r, initialized)
    /\ srv' = AfterWrite(process_request(r, initialized), stdout)
    /\ UNCHANGED <<cacheVars, writers, clientVars, stdin, stdout, dataVars>>

\* the main loop reads a tools/call that handle_tool_call answers itself
ToolCallRejected(r) ==
    /\ Reading(srv)
    /\ stdin = "open"
    /\ empty_reads' = 0
    /\ r.method = "tools/call"
    /\ handle_tool_call(r, initialized) # NoResponse
    /\ req' = r
    /\ line' = RequestLine(r)
    /\ resp' = handle_tool_call(r, initialized)
    /\ srv' = AfterWrite(handle_tool_call(r, initialized), stdout)
    /\ UNCHANGED <<cacheVars, writers, initialized, clientVars, stdin, stdout, dataVars>>

\* a handler that fails on its arguments before any call (InvalidInput)
ToolCallInvalid(r) ==
    /\ Reading(srv)
    /\ stdin = "open"
    /\ empty_reads' = 0
    /\ r.method = "tools/call"
    /\ handle_tool_call(r, initialized) = NoResponse
    /\ r.params = "bad arguments"
    /\ req' = r
    /\ line' = RequestLine(r)
    /\ resp' = ToolResponse(r, Err)
    /\ srv' = AfterWrite(ToolResponse(r, Err), stdout)
    /\ UNCHANGED <<cacheVars, writers, initialized, clientVars, stdin, stdout, dataVars>>

\* a handler that starts with a call to the API: the plain tools, and
\* DashboardsHandler::list on page 0
ToolCallOutbound(r) ==
    /\ Reading(srv)
    /\ stdin = "open"
    /\ empty_reads' = 0
    /\ r.method = "tools/call"
    /\ handle_tool_call(r, initialized) = NoResponse
    /\ r.params = "arguments"
    /\ r.tool \in PlainTools \/ r.page = 0
    /\ req' = r
    /\ resp' = NoResponse
    /\ line' = RequestLine(r)
    /\ srv' = "outbound"
    /\ UNCHANGED <<cacheVars, writers, initialized, clientVars, stdin, stdout, dataVars>>

\* DashboardsHandler::list on a later page: get_or_fetch_dashboards probes
ToolCallProbe(r) ==
    /\ Reading(srv)
    /\ stdin = "open"
    /\ empty_reads' = 0
    /\ r.method = "tools/call"
    /\ handle_tool_call(r, initialized) = NoResponse
    /\ r.tool \in CachedTools /\ r.page > 0
    /\ lock = "free"
    /\ req' = r
    /\ line' = RequestLine(r)
    /\ LET g == get(entries, DashKey, now)
       IN  /\ entries' = g.map
           /\ IF g.val # None
              THEN /\ last' = Ret("get_or_fetch", DashKey, g.val, 0)
                   /\ resp' = ToolResponse(r, g.val)
                   /\ srv' = AfterWrite(ToolResponse(r, g.val), stdout)
              ELSE /\ last' = Ret("get", DashKey, None, g.expired)
                   /\ resp' = NoResponse
                   /\ srv' = "outbound"
    /\ lock' = GuardAfterProbe("p1")
    /\ UNCHANGED <<now, call, writers, initialized, clientVars, stdin, stdout, dataVars>>

\* the handler's call to the API returns, with data or a failure; the cached
\* tool stores the data (set_dashboards, or the store of get_or_fetch)
OutboundDone(outcome) ==
    /\ srv = "outbound"
    /\ IF outcome # Err /\ req.tool \in CachedTools
       THEN /\ lock = "free"
            /\ entries' \in set(entries, DashKey, outcome, now)
            /\ last' = IF req.page = 0
                       THEN RetSet(entries, DashKey, outcome)
                       ELSE Ret("get_or_fetch", DashKey, outcome, 1)
            /\ lock' = GuardAfterOp
       ELSE UNCHANGED <<entries, last, lock>>
    /\ resp' = ToolResponse(req, outcome)
    /\ srv' = AfterWrite(ToolResponse(req, outcome), stdout)
    /\ UNCHANGED <<now, call, writers, initialized, req, line, clientVars, ioVars, dataVars>>

ServerNext ==
    \/ Tick
    \/ CallCleanupExpired
    \/ ReadBlank
    \/ \E l \in MalformedLines : ReadMalformed(l)
    \/ \E r \in Requests : Receive(r)
    \/ \E r \in Requests : ToolCallRejected(r)
    \/ \E r \in Requests : ToolCallInvalid(r)
    \/ \E r \in Requests : ToolCallOutbound(r)
    \/ \E r \in Requests : ToolCallProbe(r)
    \/ \E o \in Values \cup {Err} : OutboundDone(o)

ServerSpec == Init /\ [][ServerNext]_vars

\* the main loop with its streams: lines of every kind, empty and failed
\* reads, and a peer that closes either stream; the clock stands still
LoopNext ==
    \/ StdinCloses
    \/ PeerCloses
    \/ ReadZero
    \/ ReadError
    \/ ReadBlank
    \/ \E l \in MalformedLines : ReadMalformed(l)
    \/ \E r \in Requests : Receive(r)
    \/ \E r \in Requests : ToolCallRejected(r)
    \/ \E r \in Requests : ToolCallInvalid(r)
    \/ \E r \in Requests : ToolCallOutbound(r)
    \/ \E r \in Requests : ToolCallProbe(r)
    \/ \E o \in Values \cup {Err} : OutboundDone(o)

LoopSpec == Init /\ [][LoopNext]_vars

\* the loop keeps running: blocked at read_line it is woken by every read
\* that returns, and a handler's call to the API returns (the executor makes
\* at most MAX_RETRIES + 1 attempts)
LoopFairSpec ==
    /\ LoopSpec
    /\ WF_vars(ReadZero)
    /\ WF_vars(\E o \in Values \cup {Err} : OutboundDone(o))

\* ------------------------------------------------------ request executor
\* DatadogClient::request is called: let mut retries = 0
ExecStart ==
    /\ exec.pc \in {"idle", "done"}
    /\ exec' = [NoCall EXCEPT !.pc = "send", !.retries = StartRetries(exec.retries),
                              !.prior = IF exec.result \in {None, "ok"} THEN exec.result
                                        ELSE "failed"]
    /\ UNCHANGED <<cacheVars, writers, initialized, req, resp, srv, line, applied, ioVars, dataVars>>

\* one turn of the loop: the request is sent and ends with outcome o; a
\* failure of send() returns at once (`?`), data returns, and a failed
\* response either returns or counts a retry and starts the backoff sleep
ExecAttempt(o) ==
    /\ exec.pc = "send"
    /\ Len(exec.attempts) < MaxAttempts
    /\ LET tried == Append(exec.attempts, o)
       IN  IF o = SendError
           THEN exec' = [exec EXCEPT !.pc = "done", !.attempts = tried,
                                     !.result = send_error.class, !.failure = send_error]
           ELSE IF handle_response(o).class = "ok"
           THEN exec' = [exec EXCEPT !.pc = "done", !.attempts = tried, !.result = "ok"]
           ELSE IF ~Retryable(handle_response(o), exec.retries)
           THEN exec' = [exec EXCEPT !.pc = "done", !.attempts = tried,
                                     !.result = ReturnedFailure(tried).class,
                                     !.failure = ReturnedFailure(tried)]
           ELSE exec' = [exec EXCEPT !.pc = "backoff", !.attempts = tried,
                                     !.retries = RetriesAfter(exec.retries),
                                     !.delays = Append(exec.delays,
                                         calculate_backoff(RetriesAfter(exec.retries)))]
    /\ UNCHANGED <<cacheVars, writers, initialized, req, resp, srv, line, applied, ioVars, dataVars>>

\* the backoff sleep is over: the loop goes round again
ExecWake ==
    /\ exec.pc = "backoff"
    /\ exec' = [exec EXCEPT !.pc = "send"]
    /\ UNCHANGED <<cacheVars, writers, initialized, req, resp, srv, line, applied, ioVars, dataVars>>

\* should_retry applied to a retry count
ApplyShouldRetry(n) ==
    /\ applied' = [NotApplied EXCEPT !.fn = "should_retry", !.n = n,
                                     !.retry = should_retry(n)]
    /\ UNCHANGED <<cacheVars, writers, initialized, req, resp, srv, line, exec, ioVars, dataVars>>

\* calculate_backoff applied to a retry count
ApplyCalculateBackoff(n) ==
    /\ applied' = [NotApplied EXCEPT !.fn = "calculate_backoff", !.n = n,
                                     !.backoff = calculate_backoff(n)]
    /\ UNCHANGED <<cacheVars, writers, initialized, req, resp, srv, line, exec, ioVars, dataVars>>

\* handle_response applied to a response
ApplyHandleResponse(o) ==
    /\ applied' = [NotApplied EXCEPT !.fn = "handle_response", !.arg = o,
                                     !.out = handle_response(o)]
    /\ UNCHANGED <<cacheVars, writers, initialized, req, resp, srv, line, exec, ioVars, dataVars>>

\* calls of the executor, one after the other
ClientNext ==
    \/ ExecStart
    \/ \E o \in AttemptOutcomes : ExecAttempt(o)
    \/ ExecWake

ClientSpec == Init /\ [][ClientNext]_vars

\* the functions of the client applied on their own
FunctionsNext ==
    \/ \E n \in 0..MaxRetryCount : ApplyShouldRetry(n)
    \/ \E n \in 0..MaxRetryCount : ApplyCalculateBackoff(n)
    \/ \E o \in Responses : ApplyHandleResponse(o)

FunctionsSpec == Init /\ [][FunctionsNext]_vars

\* ------------------------------------------------------------ DataCache
\* the one key the monitors and the events handlers store under here
StoreKey == "a"

\* a sweep that reports only the count of the cache it swept last
SweepTotal_Last(total, removed) == removed

\* cleanup_all_expired, lines 186-188: `total += ...cleanup_expired().await`
SweepTotal(total, removed) == total + removed

\* set_monitors / set_events: GenericCache::set on that cache
StoreSet(c, v) ==
    /\ \E m \in set(stores[c], StoreKey, v, now) : stores' = [stores EXCEPT ![c] = m]
    /\ UNCHANGED <<cacheVars, writers, initialized, req, resp, srv, line, clientVars,
                   ioVars, sweeper, mon>>

\* cleanup_all_expired, line 186: the dashboards cache is swept first
SweepDashboards ==
    /\ sweeper.pc = "dashboards"
    /\ lock = "free"
    /\ LET r == cleanup_expired(entries, now)
       IN  /\ entries' = r.map
           /\ sweeper' = [pc |-> "monitors", total |-> SweepTotal(0, r.removed)]
    /\ lock' = GuardAfterOp
    /\ UNCHANGED <<now, call, last, writers, initialized, req, resp, srv, line,
                   clientVars, ioVars, stores, mon>>

\* cleanup_all_expired, line 187: then the monitors cache
SweepMonitors ==
    /\ sweeper.pc = "monitors"
    /\ LET r == cleanup_expired(stores["monitors"], now)
       IN  /\ stores' = [stores EXCEPT !["monitors"] = r.map]
           /\ sweeper' = [pc |-> "events", total |-> SweepTotal(sweeper.total, r.removed)]
    /\ UNCHANGED <<cacheVars, writers, initialized, req, resp, srv, line, clientVars,
                   ioVars, mon>>

\* cleanup_all_expired, lines 188-189: then the events cache, and the total
\* is returned; the task sleeps until the next tick of its interval
SweepEvents ==
    /\ sweeper.pc = "events"
    /\ LET r == cleanup_expired(stores["events"], now)
       IN  /\ stores' = [stores EXCEPT !["events"] = r.map]
           /\ last' = Ret("cleanup_all", NoKey, None, SweepTotal(sweeper.total, r.removed))
    /\ sweeper' = [pc |-> "dashboards", total |-> 0]
    /\ UNCHANGED <<entries, now, lock, call, writers, initialized, req, resp, srv, line,
                   clientVars, ioVars, mon>>

\* the dashboards list request of page 0 and the initialized notification
SweepRequests ==
    {r \in Requests :
        \/ r.method = "notifications/initialized" /\ r.id = NoId
        \/ /\ r.method = "tools/call" /\ r.id = "id1" /\ r.params = "arguments"
           /\ r.tool \in CachedTools /\ r.page = 0}

\* the three caches filled by handlers while the sweep task runs; the
\* dashboards cache also under a second key (a list with other parameters)
DataCacheNext ==
    \/ Tick
    \/ \E r \in SweepRequests : Receive(r)
    \/ \E r \in SweepRequests : ToolCallOutbound(r)
    \/ OutboundDone("v1")
    \/ CallSet("b", "v1")
    \/ \E c \in StoreNames : StoreSet(c, "v1")
    \/ SweepDashboards
    \/ SweepMonitors
    \/ SweepEvents

DataCacheSpec == Init /\ [][DataCacheNext]_vars

\* the sweep task is spawned on the runtime and woken by its own interval
\* (lines 95-106): each of its steps is eventually taken, whatever the main
\* loop does
DataCacheFairSpec ==
    /\ DataCacheSpec
    /\ WF_vars(SweepDashboards)
    /\ WF_vars(SweepMonitors)
    /\ WF_vars(SweepEvents)

\* ------------------------------------------------- MonitorsHandler::list
\* page 0, lines 36-37: list_monitors returns; a failure leaves through `?`,
\* fresh data is stored with set_monitors
MonitorsList(outcome) ==
    /\ mon.pc = "idle"
    /\ IF outcome = Err
       THEN UNCHANGED <<stores, mon>>
       ELSE /\ \E m \in set(stores["monitors"], StoreKey, outcome, now) :
                  stores' = [stores EXCEPT !["monitors"] = m]
            /\ mon' = [pc |-> "stored", invoked |-> 0]
    /\ UNCHANGED <<cacheVars, writers, initialized, req, resp, srv, line, clientVars,
                   ioVars, sweeper>>

\* page 0, lines 38-40: get_or_fetch_monitors on the same key; a hit returns
\* the data, a miss calls the producer, which is `unreachable!` and panics
MonitorsProbe ==
    /\ mon.pc = "stored"
    /\ LET g == get(stores["monitors"], StoreKey, now)
       IN  /\ stores' = [stores EXCEPT !["monitors"] = g.map]
           /\ mon' = IF g.val # None
                     THEN [pc |-> "idle", invoked |-> 0]
                     ELSE [pc |-> "panicked", invoked |-> 1]
    /\ UNCHANGED <<cacheVars, writers, initialized, req, resp, srv, line, clientVars,
                   ioVars, sweeper>>

\* the handler between its two cache calls, the clock and the sweep task
MonitorsNext ==
    \/ Tick
    \/ \E o \in Values \cup {Err} : MonitorsList(o)
    \/ MonitorsProbe
    \/ SweepDashboards
    \/ SweepMonitors
    \/ SweepEvents

MonitorsSpec == Init /\ [][MonitorsNext]_vars

\* ------------------------------------------------- steps the claims name
\* every operation records itself in last, and none moves the clock
\* the step ran GenericCache::get on key last'.key, directly or as the probe
\* of get_or_fetch, and returned last'.val
DidGet ==
    /\ now' = now
    /\ last'.op = "get" \/ (last'.op = "get_or_fetch" /\ last'.n = 0)

\* the step ran GenericCache::set on key last'.key with value last'.val,
\* directly or as the store of get_or_fetch
DidSet ==
    /\ now' = now
    /\ last'.op = "set" \/ (last'.op = "get_or_fetch" /\ last'.n = 1 /\ last'.val # Err)

\* the step ran cleanup_expired
DidCleanup == now' = now /\ last'.op = "cleanup"

\* the step is caller p's probe missing, and the one ending p's get_or_fetch
DidMiss(p) == call[p].pc = "idle" /\ call'[p].pc = "fetching"

DidFetchDone(p) == call[p].pc = "fetching" /\ call'[p].pc = "idle"

Present(k) == k \in DOMAIN entries

Unexpired(k) == Present(k) /\ age(entries[k], now) < ttl

\* ------------------------------------------------------------------- C1
\* C1: under every interleaving of set, get, get_or_fetch and sweep_expired
\* the map never holds more than max_entries entries.
CapacityNeverExceeded == MapLen(entries) <= max_entries

\* a set that evicted has completed and the map is full
CapacityWitness ==
    last.op = "set" /\ last.n = 1 /\ MapLen(entries) = max_entries

\* ------------------------------------------------------------------- C2
\* C2: a get of an entry whose age is at least ttl removes the entry and
\* returns nothing; a get that returns a value returns the data of an entry
\* younger than ttl; a set stamps its entry with the time of the set and no
\* get moves that stamp, so a value inserted at t0 is served by no get at or
\* after t0 + ttl.
GetNeverReturnsExpired ==
    [][/\ DidSet =>
             (last'.key \in DOMAIN entries' /\ entries'[last'.key].created_at = now)
       /\ DidGet =>
          LET k == last'.key
          IN  /\ (Present(k) /\ age(entries[k], now) >= ttl)
                    => (last'.val = None /\ k \notin DOMAIN entries')
              /\ last'.val # None
                    => (Unexpired(k) /\ last'.val = entries[k].data)
              /\ \A x \in DOMAIN entries' :
                    x \in DOMAIN entries /\ entries'[x].created_at = entries[x].created_at
       ]_vars

\* a get found its entry expired, removed it and returned nothing
ExpiredGetWitness ==
    last.op = "get" /\ last.n = 1 /\ last.val = None /\ last.key \notin DOMAIN entries

\* ------------------------------------------------------------------- C3
\* C3: when get(k) is the operation right after set(k, v), the entry is there
\* and, unless ttl has elapsed since the set, get returns v.
SetThenGetRoundTrip ==
    [][(last.op = "set" /\ DidGet /\ last'.key = last.key) =>
          LET k == last.key
          IN  /\ Present(k)
              /\ entries[k].data = last.val
              /\ Unexpired(k) => last'.val = last.val
      ]_vars

\* a get returned the value of an entry set at this very clock reading
RoundTripWitness ==
    /\ last.op = "get" /\ last.val \in Values
    /\ last.key \in DOMAIN entries
    /\ entries[last.key].created_at = now
    /\ entries[last.key].data = last.val

\* ------------------------------------------------------------------- C4
\* C4: a set of a new key into a full map evicts exactly one entry, one whose
\* last-access time is least among the entries present before, and leaves the
\* others as they were; the last-access time of an entry is the time of its
\* insertion, moved to the time of each get that returns it.
LruEviction ==
    [][/\ DidSet =>
             LET k == last'.key
             IN  /\ k \in DOMAIN entries' /\ entries'[k].last_accessed = now
                 /\ (~Present(k) /\ MapLen(entries) = max_entries) =>
                       \E victim \in DOMAIN entries :
                          /\ \A x \in DOMAIN entries :
                                entries[victim].last_accessed <= entries[x].last_accessed
                          /\ DOMAIN entries' = (DOMAIN entries \ {victim}) \cup {k}
                          /\ \A x \in DOMAIN entries \ {victim} : entries'[x] = entries[x]
       /\ DidGet =>
             LET k == last'.key
             IN  /\ last'.val # None => entries'[k].last_accessed = now
                 /\ \A x \in DOMAIN entries' \ {k} :
                       entries'[x].last_accessed = entries[x].last_accessed
      ]_vars

\* a set evicted an entry while an entry that was read after its insertion
\* stayed
LruWitness ==
    /\ last.op = "set" /\ last.n = 1
    /\ \E x \in DOMAIN entries : entries[x].last_accessed > entries[x].created_at

\* ------------------------------------------------------------------- C5
\* C5: get_or_fetch on a present, unexpired key returns the cached value and
\* invokes no producer; otherwise it invokes the producer, once; when the
\* producer succeeds its value is returned and stored, and a get of the key
\* right after returns it (unless ttl has elapsed).
GetOrFetchContract ==
    [][/\ (DidGet /\ last'.op = "get_or_fetch") =>
             /\ Unexpired(last'.key)
             /\ last'.val = entries[last'.key].data
             /\ call' = call
       /\ \A p \in Procs :
             DidMiss(p) =>
                /\ ~Unexpired(call'[p].key)
                /\ call'[p].invoked = 1
                /\ last' = Ret("get", call'[p].key, None, last'.n)
       /\ \A p \in Procs :
             (DidFetchDone(p) /\ last'.val # Err) =>
                LET k == call[p].key
                IN  /\ last'.op = "get_or_fetch" /\ last'.key = k /\ last'.n = 1
                    /\ k \in DOMAIN entries'
                    /\ entries'[k].data = last'.val
       /\ (last.op = "get_or_fetch" /\ last.n = 1 /\ last.val # Err
             /\ DidGet /\ last'.key = last.key) =>
                (Present(last.key) /\ (Unexpired(last.key) => last'.val = last.val))
      ]_vars

\* a get_or_fetch that missed has stored and returned its producer's value
FetchMissWitness ==
    /\ last.op = "get_or_fetch" /\ last.n = 1 /\ last.val \in Values
    /\ last.key \in DOMAIN entries /\ entries[last.key].data = last.val

\* ------------------------------------------------------------------- C6
\* C6: when the producer fails, get_or_fetch returns the failure and performs
\* no cache operation after its probe: the map is left as it was.
ProducerFailureCachesNothing ==
    [][\A p \in Procs :
          (DidFetchDone(p) /\ last'.val = Err) =>
             /\ last' = Ret("get_or_fetch", call[p].key, Err, 1)
             /\ entries' = entries
      ]_vars

\* a get_or_fetch returned its producer's failure and its key is not cached
ProducerFailureWitness ==
    last.op = "get_or_fetch" /\ last.val = Err /\ last.key \notin DOMAIN entries

\* ------------------------------------------------------------------- C7
\* C7: while a producer runs its caller does not hold the lock: the sweep and
\* another caller's set can run, and another caller's get_or_fetch of the same
\* key, when the key is still missing, invokes its own producer.
NoLockAcrossProducer ==
    \A p \in Procs :
       call[p].pc = "fetching" =>
          /\ lock = "free"
          /\ ENABLED CallCleanupExpired
          /\ \A q \in Procs \ {p} :
                call[q].pc = "idle" =>
                   /\ \A k \in Keys, v \in Values : ENABLED CallSet(k, v)
                   /\ ~Unexpired(call[p].key) =>
                         ENABLED (GetOrFetchProbe(q, call[p].key) /\ call'[q].pc = "fetching")

\* two callers have a producer in flight for the same key
DuplicateFetchWitness ==
    \E p, q \in Procs :
       /\ p # q
       /\ call[p].pc = "fetching" /\ call[q].pc = "fetching"
       /\ call[p].key = call[q].key

\* ------------------------------------------------------------------- C8
\* C8: on a new cache, with one writer per caller, each setting a key of its
\* own, and no more writers than max_entries: a writer that has not set yet can always do so,
\* and once all have, every key whose ttl has not elapsed since its set is
\* present with its writer's value, and a get of it returns that value.
NoLostUpdate ==
    /\ \A p \in Procs :
          ~Written(p) => \E k \in Keys, v \in Values : ENABLED WriterSet(p, k, v)
    /\ (\A p \in Procs : Written(p)) =>
          \A p \in Procs :
             LET k == writers[p].key
             IN  now - writers[p].at < ttl =>
                    /\ Present(k) /\ entries[k].data = writers[p].val
                    /\ (last.op = "get" /\ last.key = k) => last.val = writers[p].val

\* every writer has set its key and a get just returned a writer's value
WritersWitness ==
    /\ \A p \in Procs : Written(p)
    /\ \E p \in Procs :
          last = Ret("get", writers[p].key, writers[p].val, 0)

\* ------------------------------------------------------------------ C10
\* C10: a tools/call read while the session is uninitialized is answered with
\* the error -32002 under the request's id, runs no handler, starts no call to
\* the API and leaves the cache alone.
UninitializedToolCallRejected ==
    [][(srv = "read" /\ ~initialized /\ req'.method = "tools/call"
          /\ <<req, resp, line>>' # <<req, resp, line>>) =>
             /\ HasError(resp') /\ ~HasResult(resp')
             /\ resp'.error.code = -32002 /\ resp'.id = req'.id
             /\ resp'.handler = NoTool
             /\ srv' = "read"
             /\ UNCHANGED cacheVars
      ]_vars

\* an uninitialized session has answered a tools/call that names a tool
UninitializedWitness ==
    /\ ~initialized
    /\ req.method = "tools/call" /\ req.tool \in Tools /\ req.id \in Ids
    /\ resp = create_error_response(-32002, <<"Server not initialized">>, req.id)

\* ------------------------------------------------------------------- C9
\* C9 as stated: sweep_expired removes the entries whose age exceeds ttl
\* (age > ttl) and no other, leaves the surviving entries unchanged, and
\* returns the number of entries it removed.
SweepRemovesOlderThanTtl ==
    [][DidCleanup =>
          /\ DOMAIN entries' = {k \in DOMAIN entries : ~(age(entries[k], now) > ttl)}
          /\ \A k \in DOMAIN entries' : entries'[k] = entries[k]
          /\ last'.n = Cardinality(DOMAIN entries \ DOMAIN entries')
      ]_vars

\* C9 amended: sweep_expired removes every entry whose age is at least ttl
\* (age >= ttl) and no other, leaves the surviving entries unchanged, and
\* returns the number of entries it removed.
SweepRemovesExpired ==
    [][DidCleanup =>
          /\ DOMAIN entries' = {k \in DOMAIN entries : age(entries[k], now) < ttl}
          /\ \A k \in DOMAIN entries' : entries'[k] = entries[k]
          /\ last'.n = Cardinality(DOMAIN entries \ DOMAIN entries')
      ]_vars

\* a sweep removed an entry and left a younger one in place
SweepWitness ==
    last.op = "cleanup" /\ last.n >= 1 /\ entries # << >>

\* ----------------------------------------------- steps of the main loop
\* the main loop read a line and handled it as far as its response or the
\* start of a tool handler
DidRead == srv = "read" /\ <<req, resp, line>>' # <<req, resp, line>>

\* the step read a line that parsed as a request
DidReadRequest == DidRead /\ line'.shape = "request"

\* the methods process_request has an arm for
KnownMethods ==
    {"initialize", "tools/list", "tools/call"}
        \cup InitializedMethods \cup FixedResultMethods \cup SilentMethods

\* ------------------------------------------------------------------ C11
\* C11: initialized is false at start; the initialized and
\* notifications/initialized messages set it; no other input changes it
\* (initialize, shutdown, exit, tools/list, tools/call, unknown methods and
\* malformed lines leave it as it is); once true it stays true.
SessionFlagLifecycle ==
    /\ ~initialized
    /\ [][/\ initialized => initialized'
          /\ (DidReadRequest /\ req'.method \in InitializedMethods) => initialized'
          /\ initialized' # initialized =>
                (DidReadRequest /\ req'.method \in InitializedMethods)
         ]_vars

\* an initialized session has gone on to answer a tools/list
SessionFlagWitness ==
    /\ initialized
    /\ req.method = "tools/list" /\ HasResult(resp)

\* ------------------------------------------------------------------ C12
\* C12 as stated: a message without an id is a notification; whatever its
\* method, processing it writes no response line.
NotificationNeverAnswered ==
    [][(DidReadRequest /\ line'.id = NoId) => ~resp'.some]_vars

\* ------------------------------------------------------------------ C13
\* C13: for a non-blank line that fails to parse as a request: when no id can
\* be recovered (the line is no JSON, or JSON without an id field) nothing is
\* written; when an id can be recovered one error envelope is written, with
\* that id and the code -32700; the session and the cache are left alone.
ParseFailureResponse ==
    [][(DidRead /\ line' \in MalformedLines) =>
          /\ IF line'.shape = "notjson" \/ line'.id = NoId
             THEN ~resp'.some
             ELSE /\ resp'.some /\ HasError(resp') /\ ~HasResult(resp')
                  /\ resp'.error.code = -32700
                  /\ resp'.id = line'.id
          /\ UNCHANGED <<initialized, cacheVars, srv>>
      ]_vars

\* a malformed object with an id was answered with a parse error under it
ParseFailureWitness ==
    /\ line.shape = "nomethod" /\ line.id \in Ids
    /\ resp.some /\ resp.error.code = -32700 /\ resp.id = line.id

\* ------------------------------------------------------------------ C14
\* C14: every response written has exactly one of result and error, whatever
\* the method and the outcome (success, protocol error, parse error, tool
\* failure).
ExactlyOneOfResultAndError ==
    resp.some => (HasResult(resp) <=> ~HasError(resp))

\* a tool failure was written as a result flagged as an error
ToolFailureWitness ==
    resp.some /\ resp.isError /\ HasResult(resp) /\ resp.handler \in Tools

\* ------------------------------------------------------------------ C15
\* C15: one call of the executor makes at most 4 attempts; it goes on after a
\* failed response only while fewer than 4 attempts were made; when every
\* attempt failed with a non-2xx status it returns the failure after exactly
\* 4 attempts; a success is the last attempt of its call, the k-th with
\* k <= 4, and is what the call returns.
ExecutorAttempts ==
    LET tried == exec.attempts
        n == Len(tried)
    IN  /\ n <= 4
        /\ exec.pc \in {"send", "backoff"} =>
              (n < 4 /\ \A i \in 1..n : tried[i] \in FailureStatuses \cup {BadBody})
        /\ (exec.pc = "done" /\ \A i \in 1..n : tried[i] \in FailureStatuses) =>
              (n = 4 /\ exec.result = handle_response(tried[4]).class)
        /\ \A k \in 1..n :
              tried[k] = Ok200 =>
                 (k = n /\ k <= 4 /\ exec.pc = "done" /\ exec.result = "ok")
        /\ exec.result = "ok" => (n >= 1 /\ tried[n] = Ok200)

\* a call gave up after four failed responses
ExecutorExhaustedWitness ==
    /\ exec.pc = "done" /\ Len(exec.attempts) = 4 /\ exec.result = "ApiError"
    /\ \A i \in 1..4 : exec.attempts[i] \in FailureStatuses

\* ------------------------------------------------------------------ C16
\* C16: should_retry(n) is true exactly when n < 3, which is MAX_RETRIES, and
\* false for every n >= 3.
ShouldRetryBelowLimit ==
    /\ MAX_RETRIES = 3
    /\ applied.fn = "should_retry" => (applied.retry <=> applied.n < 3)

\* should_retry was applied to the limit itself and said no
ShouldRetryWitness ==
    applied.fn = "should_retry" /\ applied.n = 3 /\ ~applied.retry

\* ------------------------------------------------------------------ C17
\* C17: calculate_backoff(n) is 2^n seconds: 1, 2, 4, 8 for n = 0..3, 16 for
\* n = 4, 1024 for n = 10, with no cap.
BackoffIsPowerOfTwo ==
    applied.fn = "calculate_backoff" =>
       /\ applied.backoff = 2 ^ applied.n
       /\ applied.n = 0 => applied.backoff = 1
       /\ applied.n = 1 => applied.backoff = 2
       /\ applied.n = 2 => applied.backoff = 4
       /\ applied.n = 3 => applied.backoff = 8
       /\ applied.n = 4 => applied.backoff = 16
       /\ applied.n = 10 => applied.backoff = 1024

\* calculate_backoff was applied to 10
BackoffWitness ==
    applied.fn = "calculate_backoff" /\ applied.n = 10 /\ applied.backoff = 1024

\* ------------------------------------------------------------------ C18
\* C18: an initialize request whose params carry a protocol version is
\* answered with a result whose protocolVersion is the version sent,
\* whichever it is, under the request's id.
InitializeEchoesVersion ==
    [][(DidReadRequest /\ req'.method = "initialize" /\ req'.params \in Versions) =>
          /\ resp'.some /\ HasResult(resp') /\ ~HasError(resp')
          /\ resp'.result = req'.params
          /\ resp'.id = req'.id
      ]_vars

\* an initialize for a version other than the server's own was answered
InitializeWitness ==
    /\ req.method = "initialize" /\ req.params = "2025-03-26" /\ req.id \in Ids
    /\ resp = create_success_response("2025-03-26", req.id)

\* ------------------------------------------------------------------ C19
\* C19: an initialize request without params, or whose params lack a
\* protocol version, is answered with an error of code -32602 and no result,
\* and leaves the session state as it was.
InitializeInvalidParams ==
    [][(DidReadRequest /\ req'.method = "initialize" /\ req'.params \notin Versions) =>
          /\ resp'.some /\ HasError(resp') /\ ~HasResult(resp')
          /\ resp'.error.code = -32602
          /\ resp'.id = req'.id
          /\ UNCHANGED <<initialized, cacheVars, srv>>
      ]_vars

\* an initialize without params was rejected
InitializeInvalidWitness ==
    /\ req.method = "initialize" /\ req.params = "absent"
    /\ resp.some /\ resp.error.code = -32602 /\ ~HasResult(resp)

\* ------------------------------------------------------------------ C20
\* C20: a request whose method is outside the fixed set is answered with an
\* error of code -32601 whose message contains the method name, in the
\* uninitialized and in the initialized session alike.
UnknownMethodRejected ==
    [][(DidReadRequest /\ req'.method \notin KnownMethods) =>
          /\ resp'.some /\ HasError(resp') /\ ~HasResult(resp')
          /\ resp'.error.code = -32601
          /\ \E i \in 1..Len(resp'.error.message) : resp'.error.message[i] = req'.method
          /\ resp'.id = req'.id
          /\ UNCHANGED initialized
      ]_vars

\* an initialized session rejected an unknown method
UnknownMethodWitness ==
    /\ initialized
    /\ req.method \in UnknownMethods
    /\ resp.some /\ resp.error.code = -32601

\* ------------------------------------------------ steps of a tools/call
\* the step ended a tool handler: within the step that read the request (the
\* arguments were refused, or the cache was hit), or as the return of the
\* handler's call to the API
DidHandlerReturn ==
    \/ /\ DidReadRequest /\ initialized
       /\ req'.method = "tools/call" /\ req'.params # "absent" /\ req'.tool \in Tools
       /\ srv' = "read"
    \/ srv = "outbound" /\ srv' = "read"

\* the attempts of the call under way that ended in a response
FailedResponses == FailureStatuses \cup {BadBody}

\* ------------------------------------------------------------------ C21
\* C21: when a tools/call of an initialized session reaches a tool handler
\* the response has a result and no error: the handler's data on success, a
\* text flagged isError on failure (arguments refused, or the call to the API
\* failed); a handler failure never comes back as a protocol error.
ToolHandlerResult ==
    [][DidHandlerReturn =>
          /\ resp'.some /\ HasResult(resp') /\ ~HasError(resp')
          /\ resp'.handler = req'.tool
          /\ req'.params = "bad arguments" => resp'.isError
          /\ resp'.isError => resp'.result = "Error"
          /\ ~resp'.isError => resp'.result \in Values
          /\ (~resp'.isError /\ req'.tool \in CachedTools) =>
                (DashKey \in DOMAIN entries' /\ entries'[DashKey].data = resp'.result)
      ]_vars

\* a handler whose call to the API failed was answered with a flagged result
OutboundFailureWitness ==
    /\ req.params = "arguments" /\ req.tool \in PlainTools
    /\ resp.some /\ resp.isError /\ HasResult(resp) /\ ~HasError(resp)

\* ------------------------------------------------------------------ C22
\* C22: every response written for a parsed request carries the id of that
\* request, whatever the method, for results and errors alike.
ResponseCarriesRequestId ==
    [][((DidReadRequest \/ srv = "outbound") /\ resp'.some) => resp'.id = req'.id]_vars

\* a result went out under the id of a tools/call that carried one
ResponseIdWitness ==
    /\ req.method = "tools/call" /\ req.id \in Ids
    /\ resp.some /\ HasResult(resp) /\ resp.id = req.id

\* ------------------------------------------------------------------ C23
\* C23: a failed response is retried whenever fewer than 3 retries were made,
\* whatever its class: with Auth, Rate-limited, Timed-out, API failures (and
\* bodies that do not decode) in any mix, a call that never succeeds ends
\* after 4 attempts and not before.
RetryRegardlessOfClass ==
    LET tried == exec.attempts
        n == Len(tried)
    IN  /\ (exec.pc = "done" /\ \A i \in 1..n : tried[i] \in FailedResponses) => n = 4
        /\ (n >= 1 /\ n < 4 /\ tried[n] \in FailedResponses) => exec.pc # "done"

\* a call met an Auth failure on each of its four attempts
AuthRetriedWitness ==
    /\ exec.pc = "done" /\ Len(exec.attempts) = 4
    /\ \A i \in 1..4 : handle_response(exec.attempts[i]).class = "AuthError"

\* ------------------------------------------------------------------ C24
\* C24 as stated: a transport failure of an attempt (send() failing, or a body
\* that does not decode) is followed by further attempts until the budget of
\* 3 retries is used, and only then returned.
TransportFailureRetried ==
    LET tried == exec.attempts
        n == Len(tried)
    IN  (exec.pc = "done" /\ n >= 1 /\ tried[n] \in {SendError, BadBody}) => n = 4

\* ------------------------------------------------------------------ C25
\* C25: the failure a call returns is the classified failure of the last
\* attempt it made, whatever the earlier attempts met.
LastFailureReturned ==
    LET tried == exec.attempts
        n == Len(tried)
    IN  (exec.pc = "done" /\ exec.result # "ok") =>
           /\ exec.result = exec.failure.class
           /\ exec.failure = IF tried[n] = SendError THEN send_error
                             ELSE handle_response(tried[n])

\* an exhausted call whose first and last attempts failed in different ways
LastFailureWitness ==
    /\ exec.pc = "done" /\ Len(exec.attempts) = 4
    /\ exec.attempts[1].status = 401 /\ exec.attempts[4].status = 500
    /\ exec.failure = [class |-> "ApiError", status |-> 500, text |-> "denied"]

\* ------------------------------------------------------------------ C26
\* C26: the delays slept in one call are 2 s, 4 s, 8 s in this order (the
\* backoff of retry number 1, 2, 3), one after each failed attempt that is
\* retried, and none after the attempt that ends the call.
BackoffDelays ==
    LET slept == exec.delays
    IN  /\ Len(slept) = exec.retries /\ Len(slept) <= 3
        /\ \A i \in 1..Len(slept) : slept[i] = 2 ^ i
        /\ exec.pc = "backoff" => Len(slept) = Len(exec.attempts)
        /\ exec.pc \in {"send", "done"} => Len(slept) + 1 >= Len(exec.attempts)
        /\ exec.pc = "done" => Len(slept) = Len(exec.attempts) - 1
        /\ (exec.pc = "done" /\ Len(exec.attempts) = 4) => slept = <<2, 4, 8>>

\* an exhausted call has slept three times
BackoffDelaysWitness ==
    exec.pc = "done" /\ exec.result # "ok" /\ exec.delays = <<2, 4, 8>>

\* ------------------------------------------------------------------ C27
\* C27: every call starts with no retry made, no attempt and no delay,
\* however the call before it ended; a call that follows a failed call again
\* makes 4 attempts before it gives up; nothing of a call is left once the
\* next begins.
RetryStatePerCall ==
    [][/\ (exec.pc \in {"idle", "done"} /\ exec'.pc = "send") =>
             /\ exec'.retries = 0
             /\ exec'.attempts = << >> /\ exec'.delays = << >>
             /\ exec'.result = None /\ exec'.failure = NoFailure
       /\ (exec'.pc = "done" /\ exec'.prior = "failed"
              /\ \A i \in 1..Len(exec'.attempts) : exec'.attempts[i] \in FailedResponses) =>
             Len(exec'.attempts) = 4
      ]_vars

\* a call that followed a failed call has used its own four attempts
SecondCallWitness ==
    /\ exec.prior = "failed" /\ exec.pc = "done"
    /\ Len(exec.attempts) = 4 /\ exec.retries = 3 /\ exec.result # "ok"

\* ------------------------------------------------------------------ C28
\* C28: a 2xx response whose body decodes is a success; 401 and 403 are Auth
\* failures; 429 is Rate-limited; 408 is Timed out; any other non-2xx status
\* is an API failure that carries the status and the body text; a 2xx whose
\* body does not decode is a Transport failure (NetworkError).
ResponseClassification ==
    applied.fn = "handle_response" =>
       LET o == applied.arg
           c == applied.out
           ok2xx == o.status >= 200 /\ o.status <= 299
       IN  /\ c.class = "ok" <=> (ok2xx /\ o.decodes)
           /\ c.class = "NetworkError" <=> (ok2xx /\ ~o.decodes)
           /\ c.class = "AuthError" <=> o.status \in {401, 403}
           /\ c.class = "RateLimitError" <=> o.status = 429
           /\ c.class = "TimeoutError" <=> o.status = 408
           /\ c.class = "ApiError" <=> (~ok2xx /\ o.status \notin {401, 403, 408, 429})
           /\ c.class = "ApiError" => (c.status = o.status /\ c.text = o.body)
           /\ c.class \in {"ok", "NetworkError", "AuthError", "RateLimitError",
                           "TimeoutError", "ApiError"}

\* a 403 was classified as an Auth failure
ClassificationWitness ==
    /\ applied.fn = "handle_response"
    /\ applied.arg.status = 403 /\ applied.out.class = "AuthError"

\* ------------------------------------------------------------------ C29
\* C29: a tools/call of an initialized session without params, without a tool
\* name, or naming a tool outside the fixed set, is answered with an error of
\* code -32602; no handler runs and no call to the API is started.
InvalidToolCallRejected ==
    [][(DidReadRequest /\ initialized /\ req'.method = "tools/call"
          /\ (req'.params = "absent" \/ req'.tool \notin Tools)) =>
             /\ resp'.some /\ HasError(resp') /\ ~HasResult(resp')
             /\ resp'.error.code = -32602
             /\ resp'.id = req'.id
             /\ resp'.handler = NoTool /\ ~resp'.isError
             /\ srv' = "read"
             /\ UNCHANGED <<cacheVars, clientVars, initialized>>
      ]_vars

\* an initialized session refused a tool it does not know
UnknownToolWitness ==
    /\ initialized
    /\ req.method = "tools/call" /\ req.tool = UnknownTool
    /\ resp.some /\ resp.error.code = -32602

\* ------------------------------------------------------------------ C30
\* C30: the loop reads a line only when no request is still being processed:
\* while a handler's call is in flight the request in flight is the line read
\* last and nothing was written for it yet, and the response that ends it is
\* written for that request; so responses go out in the order of the reads.
ResponsesInReadOrder ==
    [][/\ <<req, line>>' # <<req, line>> => srv = "read"
       /\ srv = "outbound" =>
             /\ line = RequestLine(req) /\ ~resp.some
             /\ resp' # resp =>
                   (resp'.some /\ resp'.id = req.id /\ resp'.handler = req.tool
                       /\ srv' = "read")
      ]_vars

\* the answer to a tools/call that went to the API is the last thing written
\* and its request the last line read
InOrderWitness ==
    /\ srv = "read" /\ line = RequestLine(req)
    /\ req.tool \in PlainTools /\ req.params = "arguments"
    /\ resp.some /\ ~resp.isError /\ resp.handler = req.tool

\* ------------------------------------------------------------------ C36
\* C36: a set on a key that is already in the map evicts nothing, even when
\* the map holds max_entries entries: the keys of the map stay the same, every
\* other entry is left as it was, and the entry of the key is replaced by a
\* new one holding the value of the set.
SetOnPresentKeyNeverEvicts ==
    [][(DidSet /\ Present(last'.key)) =>
          LET k == last'.key
          IN  /\ DOMAIN entries' = DOMAIN entries
              /\ \A x \in DOMAIN entries \ {k} : entries'[x] = entries[x]
              /\ entries'[k] = new_entry(last'.val, now)
              /\ last'.op = "set" =>
                    (last'.n = 0 /\ last'.had = (MapLen(entries) >= max_entries))
      ]_vars

\* a set has replaced the entry of its key in a map that stayed full
SetOnPresentKeyWitness ==
    /\ last.op = "set" /\ last.had /\ last.n = 0
    /\ MapLen(entries) = max_entries
    /\ entries[last.key] = new_entry(last.val, now)

\* ------------------------------------------------------------------ C38
\* C38: a get that returns a value sets the entry's last-access time to the
\* time of the get and leaves its insertion time, hence the time at which it
\* expires, where it was; a set on a key that is present replaces the entry
\* by one whose insertion time and last-access time are the time of the set.
ExpiryFromInsertionOnly ==
    [][/\ (DidGet /\ last'.val # None) =>
             LET k == last'.key
             IN  /\ k \in DOMAIN entries'
                 /\ entries'[k].created_at = entries[k].created_at
                 /\ entries'[k].last_accessed = now
                 /\ \A t \in 0..(MaxTime + ttl) :
                        (age(entries'[k], t) < ttl) = (age(entries[k], t) < ttl)
       /\ (DidSet /\ Present(last'.key)) =>
             LET k == last'.key
             IN  /\ entries'[k].created_at = now
                 /\ entries'[k].last_accessed = now
      ]_vars

\* a get has served an entry inserted earlier: its last-access time is the
\* time of the get, its insertion time is not
RefreshedEntryWitness ==
    /\ last.op = "get" /\ last.val # None
    /\ last.key \in DOMAIN entries
    /\ entries[last.key].last_accessed = now
    /\ entries[last.key].created_at < now

\* ------------------------------------------------------------------ C39
\* C39: a tools/list request read while the session is uninitialized is
\* answered with an error of code -32002 and no result; one read after the
\* initialized notification is answered with a result and no error.
ToolsListGated ==
    [][(DidReadRequest /\ req'.method = "tools/list") =>
          /\ resp'.some
          /\ ~initialized => (/\ HasError(resp') /\ ~HasResult(resp')
                              /\ resp'.error.code = -32002)
          /\ initialized => (HasResult(resp') /\ ~HasError(resp'))
      ]_vars

\* a tools/list was refused in a session that is still uninitialized
ToolsListRefusedWitness ==
    /\ ~initialized
    /\ req.method = "tools/list"
    /\ resp.error.code = -32002 /\ ~HasResult(resp)

\* --------------------------------------------- steps of the main loop
\* the step is the loop taking a line of data (one that read_line returned
\* with at least one byte) from the input
DataShapes == {"blank", "notjson", "nonobject", "nomethod", "request"}

DidReadData ==
    /\ srv = "read"
    /\ line'.shape \in DataShapes
    /\ <<req, resp, line, empty_reads>>' # <<req, resp, line, empty_reads>>

\* the step is a read that returned zero bytes, and one that returned an error
DidReadZero == srv = "read" /\ line'.shape = "zero" /\ empty_reads' # empty_reads

DidReadError == srv = "read" /\ line'.shape = "error" /\ line' # line

\* the step hands a response to the output stream: the loop's own answer to
\* a line, or the answer of a handler that has returned
DidWrite ==
    /\ srv \in {"read", "outbound"}
    /\ resp'.some
    /\ <<req, resp, line, srv>>' # <<req, resp, line, srv>>

\* the requests the session answers with an error or whose handler fails
FailingRequest(r, init) ==
    \/ r.method \in UnknownMethods
    \/ r.method = "initialize" /\ r.params \notin Versions
    \/ r.method = "tools/call" /\ ~init
    \/ r.method = "tools/call" /\ r.params \notin {"arguments"}

WriteFailureEndsLoop ==
    [][(DidWrite /\ stdout = "broken") => srv' = "ended"]_vars

\* ------------------------------------------------------------------ C33
\* C33: a zero-byte read adds one to the counter and ends the loop exactly
\* when the counter exceeds 3, that is at the 4th such read with no data in
\* between; a read of data sets the counter to 0 and nothing else lowers or
\* raises it, so the loop is never ended by empty reads that come in runs of
\* at most 3; and once the input is at its end, where every read returns
\* zero bytes, the loop eventually ends.
EmptyReadsEndLoop ==
    /\ [](srv # "ended" => empty_reads <= 3)
    /\ [][/\ DidReadZero =>
                /\ empty_reads' = empty_reads + 1
                /\ (srv' = "ended") = (empty_reads = 3)
          /\ DidReadData => empty_reads' = 0
          /\ empty_reads' # empty_reads => (DidReadZero \/ DidReadData)
         ]_vars
    /\ (stdin = "eof") ~> (srv = "ended")

\* the 4th empty read in a row has ended a loop whose output was still open
FourthEmptyReadWitness ==
    srv = "ended" /\ empty_reads = 4 /\ stdout = "open" /\ line = ZeroLine

\* ------------------------------------------------------------------ C34
\* C34 as stated: a read of the input that fails counts as the peer having
\* gone: it ends the loop, or at least brings the loop closer to its end the
\* way an empty read does.
FailedReadEndsLoop ==
    [][DidReadError => (srv' = "ended" \/ empty_reads' > empty_reads)]_vars

\* ------------------------------------------------ steps of the sweep task
\* the entries of map m that are younger than ttl, and the count of the rest
Unexpired_of(m) == [k \in {x \in DOMAIN m : age(m[x], now) < ttl} |-> m[k]]

ExpiredCount(m) == Cardinality({x \in DOMAIN m : age(m[x], now) >= ttl})

DidSweep(c) == sweeper.pc = c /\ sweeper' # sweeper

\* ------------------------------------------------------------------ C35
\* C35: cleanup_all_expired sweeps the dashboards, the monitors and the
\* events cache in turn; each sweep removes from its own cache exactly the
\* entries that are expired at that moment and leaves the two other caches
\* as they are, and the total grows by the count removed, so that the value
\* returned is the sum of the three counts.
SweepAllSumsCounts ==
    [][/\ DidSweep("dashboards") =>
             /\ entries' = Unexpired_of(entries)
             /\ stores' = stores
             /\ sweeper'.total = ExpiredCount(entries)
       /\ DidSweep("monitors") =>
             /\ stores'["monitors"] = Unexpired_of(stores["monitors"])
             /\ stores'["events"] = stores["events"]
             /\ entries' = entries
             /\ sweeper'.total = sweeper.total + ExpiredCount(stores["monitors"])
       /\ DidSweep("events") =>
             /\ stores'["events"] = Unexpired_of(stores["events"])
             /\ stores'["monitors"] = stores["monitors"]
             /\ entries' = entries
             /\ last'.op = "cleanup_all"
             /\ last'.n = sweeper.total + ExpiredCount(stores["events"])
      ]_vars

\* a sweep of the three caches has returned a total of 3, more than any
\* one of them removed
SweepAllWitness ==
    last.op = "cleanup_all" /\ last.n >= 3 /\ sweeper.pc = "dashboards"

\* ------------------------------------------------------------------ C37
\* C37: a step of the sweep task leaves the request, the response, the
\* session flag and the position of the main loop as they are; and when the
\* sweep task keeps being scheduled, an entry of any of the three caches that
\* has reached its TTL is eventually gone from its cache, whether or not the
\* main loop reads another line.
SweepIndependent ==
    /\ [][sweeper' # sweeper =>
             UNCHANGED <<req, resp, line, srv, initialized, ioVars>>]_vars
    /\ \A k \in {"a", "b"} :
          (k \in DOMAIN entries /\ age(entries[k], now) >= ttl)
             ~> ~(k \in DOMAIN entries /\ age(entries[k], now) >= ttl)
    /\ \A c \in StoreNames :
          (StoreKey \in DOMAIN stores[c] /\ age(stores[c][StoreKey], now) >= ttl)
             ~> ~(StoreKey \in DOMAIN stores[c] /\ age(stores[c][StoreKey], now) >= ttl)

\* the sweep task has removed expired entries while a request was in
\* flight and the session initialized: the main loop has not moved
SweepDuringRequestWitness ==
    /\ last.op = "cleanup_all" /\ last.n > 0
    /\ srv = "outbound" /\ initialized
    /\ \A c \in StoreNames : stores[c] = Unexpired_of(stores[c])

\* ------------------------------------------------------------------ C40
\* C40 as stated: in MonitorsHandler::list on page 0 the get_or_fetch that
\* follows set_monitors hits the cache whatever the sweep task does and
\* however much time passes between the two calls: its producer is never
\* invoked.
MonitorsProducerNeverInvoked == mon.invoked = 0

====
